---------------------------- MODULE Spec2Model ----------------------------
(***************************************************************************)
(* Model of dlisio's python extension (core): read_fdata, the frame-row    *)
(* decoder that walks FDATA records field by field and writes the decoded  *)
(* values into a caller-supplied numpy buffer.                             *)
(*                                                                         *)
(* A record is a sequence of bytes (0..255).  The read cursor `ptr` is the *)
(* number of bytes consumed so far, `end` is the record's size.  The       *)
(* destination buffer is a map from the byte offset of each column slot to *)
(* the slot's contents; `dst` is the byte offset of the write cursor.      *)
(* Python objects live in `heap` (index = address) with a reference count. *)
(***************************************************************************)
EXTENDS Integers, Sequences, FiniteSets, TLC

VARIABLES
    pre_fmt, fmt, post_fmt,  \* the three format strings of the call
    file,                    \* dl::stream: the records, by index
    indices,                 \* the caller's index list
    desc,                    \* how each record of `file` was laid out (ghost)
    mem,                     \* destination buffer: slot offset -> contents
    heap,                    \* python objects: [rc, type, val], index = address
    owned,                   \* ghost: slot offset -> the slot owns one reference
    dst,                     \* destination write cursor (byte offset)
    k,                       \* position of the for-loop in `indices`
    record,                  \* dl::record: [data, encrypted]
    slack,                   \* the bytes lying just past record.data, once read
    ptr,                     \* read cursor into record.data
    frameno,                 \* row index decoded last
    expected_frameno,        \* next_expected
    f,                       \* position in fmt
    pc,                      \* position of read_fdata
    err,                     \* the exception thrown, [type, msg]
    warnings,                \* runtime warnings raised towards the caller
    char_signed,             \* the build: plain char is a signed type
    g,                       \* ghost observations of the run (see G0)
    fp                       \* fingerprint(): its arguments and what its calls gave

vars == << pre_fmt, fmt, post_fmt, file, indices, desc, mem, heap, owned, dst, k,
           record, slack, ptr, frameno, expected_frameno, f, pc, err,
           warnings, char_signed, g, fp >>

----------------------------------------------------------------------------
(* Bounds of the model *)

MaxRecords == 2   \* longest index list
MaxCut == 2       \* most bytes cut off the end of a record
MaxSlack == 1     \* most readable bytes past the end of a record's buffer
MaxCalls == 2     \* most calls of fingerprint with the same arguments

(* Program constants *)

PtrSize == 8      \* sizeof(PyObject*)
chars == 255      \* capacity of an IDENT/UNITS slot, in code units
UnitSize == 4     \* sizeof(std::uint32_t)
YearBias == 1900  \* dlis_year
UInt8Max == 255   \* (std::numeric_limits< std::uint8_t >::max)()
UInt8Min == 0     \* (std::numeric_limits< std::uint8_t >::min)()

----------------------------------------------------------------------------
(* Sequence helpers *)

RECURSIVE Concat(_)
Concat(ss) == IF ss = << >> THEN << >> ELSE Head(ss) \o Concat(Tail(ss))

RECURSIVE SumSeq(_)
SumSeq(s) == IF s = << >> THEN 0 ELSE Head(s) + SumSeq(Tail(s))

Rep(n, x) == [i \in 1..n |-> x]

Min(a, b) == IF a < b THEN a ELSE b

----------------------------------------------------------------------------
(* The primitive codecs of the dlisio C library (dlis_uvari, dlis_ident,   *)
(* dlis_obname, ...).  m is the memory starting at the record's first byte *)
(* (the record followed by whatever lies behind it), p the cursor.  A      *)
(* codec reads without any check of its own; ok = FALSE is a read of a     *)
(* byte that is not mapped at all.                                         *)

Fault == [ok |-> FALSE, ptr |-> 0, val |-> << >>]

(* n raw bytes *)
Fixed(m, p, n) ==
    IF p + n > Len(m) THEN Fault
    ELSE [ok |-> TRUE, ptr |-> p + n, val |-> << SubSeq(m, p + 1, p + n) >>]

(* UVARI: 1, 2 or 4 bytes, selected by the two top bits of the first *)
Uvari(m, p) ==
    IF p + 1 > Len(m) THEN Fault
    ELSE LET b == m[p + 1] IN
         IF b < 128 THEN [ok |-> TRUE, ptr |-> p + 1, val |-> << <<b>> >>]
         ELSE IF b < 192 THEN
              IF p + 2 > Len(m) THEN Fault
              ELSE [ok |-> TRUE, ptr |-> p + 2,
                    val |-> << << (b - 128) * 256 + m[p + 2] >> >>]
         ELSE IF p + 4 > Len(m) THEN Fault
              ELSE [ok |-> TRUE, ptr |-> p + 4,
                    val |-> << << (b - 192) * 16777216 + m[p + 2] * 65536
                                  + m[p + 3] * 256 + m[p + 4] >> >>]

(* IDENT: a length byte, then that many characters *)
Ident(m, p) ==
    IF p + 1 > Len(m) THEN Fault
    ELSE LET len == m[p + 1] IN
         IF p + 1 + len > Len(m) THEN Fault
         ELSE [ok |-> TRUE, ptr |-> p + 1 + len,
               val |-> << SubSeq(m, p + 2, p + 1 + len) >>]

(* OBNAME: origin (UVARI), copy (USHORT), id (IDENT) *)
Obname(m, p) ==
    LET o == Uvari(m, p) IN
    IF ~o.ok THEN Fault
    ELSE LET c == Fixed(m, o.ptr, 1) IN
         IF ~c.ok THEN Fault
         ELSE LET i == Ident(m, c.ptr) IN
              IF ~i.ok THEN Fault
              ELSE [ok |-> TRUE, ptr |-> i.ptr, val |-> o.val \o c.val \o i.val]

(* OBJREF: type (IDENT), name (OBNAME) *)
Objref(m, p) ==
    LET t == Ident(m, p) IN
    IF ~t.ok THEN Fault
    ELSE LET n == Obname(m, t.ptr) IN
         IF ~n.ok THEN Fault
         ELSE [ok |-> TRUE, ptr |-> n.ptr, val |-> t.val \o n.val]

(* ATTREF: type (IDENT), name (OBNAME), label (IDENT) *)
Attref(m, p) ==
    LET r == Objref(m, p) IN
    IF ~r.ok THEN Fault
    ELSE LET l == Ident(m, r.ptr) IN
         IF ~l.ok THEN Fault
         ELSE [ok |-> TRUE, ptr |-> l.ptr, val |-> r.val \o l.val]

(* DTIME: Y, TZ|M, D, H, MN, S (one byte each), MS (UNORM, two bytes) *)
Dtime(m, p) ==
    IF p + 8 > Len(m) THEN Fault
    ELSE [ok |-> TRUE, ptr |-> p + 8,
          val |-> << << m[p + 1] >>, << m[p + 2] \div 16 >>, << m[p + 2] % 16 >>,
                     << m[p + 3] >>, << m[p + 4] >>, << m[p + 5] >>, << m[p + 6] >>,
                     << m[p + 7] * 256 + m[p + 8] >> >>]

(* ASCII: a UVARI length, then that many bytes (py::str(ptr, len)) *)
Ascii(m, p) ==
    LET l == Uvari(m, p) IN
    IF ~l.ok THEN Fault
    ELSE LET len == l.val[1][1] IN
         IF l.ptr + len > Len(m) THEN Fault
         ELSE [ok |-> TRUE, ptr |-> l.ptr + len,
               val |-> << SubSeq(m, l.ptr + 1, l.ptr + len) >>]

(* dlis_packflen: the source and destination widths of one fixed-width    *)
(* code of the generic decode/pack pair                                   *)
SrcWidth(c) == CASE c = "USHORT" -> 1 [] c = "FSINGL" -> 4 [] c = "FDOUBL" -> 8
DstWidth(c) == CASE c = "USHORT" -> 1 [] c = "FSINGL" -> 4 [] c = "FDOUBL" -> 8

RECURSIVE PackfLen(_)
PackfLen(s) ==
    IF s = << >> THEN [src |-> 0, dst |-> 0]
    ELSE LET r == PackfLen(Tail(s)) IN
         [src |-> SrcWidth(Head(s)) + r.src, dst |-> DstWidth(Head(s)) + r.dst]

(* dlis_year *)
dlis_year(Y) == Y + YearBias


----------------------------------------------------------------------------
(* What the Python C API accepts *)

Cont(b) == b >= 128 /\ b <= 191

(* py::str(ptr, len) decodes UTF-8 and throws when the bytes are not *)
RECURSIVE ValidUTF8(_)
ValidUTF8(s) ==
    IF s = << >> THEN TRUE
    ELSE LET b == s[1]
             n == Len(s)
             rest(i) == ValidUTF8(SubSeq(s, i + 1, n))
         IN  IF b < 128 THEN rest(1)
             ELSE IF b >= 194 /\ b <= 223 THEN n >= 2 /\ Cont(s[2]) /\ rest(2)
             ELSE IF b >= 224 /\ b <= 239
                  THEN n >= 3 /\ Cont(s[2]) /\ Cont(s[3])
                       /\ (b = 224 => s[2] >= 160) /\ (b = 237 => s[2] <= 159)
                       /\ rest(3)
             ELSE IF b >= 240 /\ b <= 244
                  THEN n >= 4 /\ Cont(s[2]) /\ Cont(s[3]) /\ Cont(s[4])
                       /\ (b = 240 => s[2] >= 144) /\ (b = 244 => s[2] <= 143)
                       /\ rest(4)
             ELSE FALSE

DaysInMonth(Y, M) ==
    IF M \in {4, 6, 9, 11} THEN 30
    ELSE IF M = 2
         THEN (IF (Y % 4 = 0 /\ Y % 100 # 0) \/ Y % 400 = 0 THEN 29 ELSE 28)
         ELSE 31

(* PyDateTime_FromDateAndTime returns NULL for anything else *)
ValidDateTime(Y, M, D, H, MN, S, US) ==
    /\ Y >= 1 /\ Y <= 9999
    /\ M >= 1 /\ M <= 12
    /\ D >= 1 /\ D <= DaysInMonth(Y, M)
    /\ H >= 0 /\ H <= 23
    /\ MN >= 0 /\ MN <= 59
    /\ S >= 0 /\ S <= 59
    /\ US >= 0 /\ US <= 999999

----------------------------------------------------------------------------
(* The heap of Python objects.  Address 1 is None. *)

None == 1

NewAddr(h) == Len(h) + 1

PyNew(h, type, val) == Append(h, [rc |-> 1, type |-> type, val |-> val])

Py_INCREF(h, p) == [h EXCEPT ![p].rc = @ + 1]

(* a release of an object that was already freed is undefined; where it  *)
(* goes unnoticed the count stays put                                     *)
Py_DECREF(h, p) == [h EXCEPT ![p].rc = IF @ > 0 THEN @ - 1 ELSE 0]

Live(h, p) == h[p].rc > 0

----------------------------------------------------------------------------
(* The layout of the destination buffer: the numpy dtype the caller builds *)
(* from fmt, one slot per representation code.                             *)

HeapCodes == {"FSING1", "FSING2", "FDOUB1", "FDOUB2",
              "ASCII", "OBNAME", "OBJREF", "ATTREF", "DTIME"}

IdentCodes == {"IDENT", "UNITS"}

ident_size == chars * UnitSize

SlotWidth(c) ==
    IF c \in HeapCodes THEN PtrSize
    ELSE IF c \in IdentCodes THEN ident_size
    ELSE DstWidth(c)

RowStride(fm) == SumSeq([j \in 1..Len(fm) |-> SlotWidth(fm[j])])

ColOffset(fm, j) == SumSeq([i \in 1..(j - 1) |-> SlotWidth(fm[i])])

SlotOffsets(fm, n) ==
    {r * RowStride(fm) + ColOffset(fm, j) : r \in 0..(n - 1), j \in 1..Len(fm)}

(* the column an offset belongs to *)
ColOf(fm, o) == CHOOSE j \in 1..Len(fm) : ColOffset(fm, j) = o % RowStride(fm)

IsHeapSlot(fm, o) == fm[ColOf(fm, o)] \in HeapCodes

(* what the buffer exposes at a slot: the object behind a pointer, or the *)
(* inline bytes                                                            *)
SlotValue(fm, m, h, o) ==
    IF IsHeapSlot(fm, o)
    THEN [type |-> h[m[o][1]].type, val |-> h[m[o][1]].val]
    ELSE [type |-> "inline", val |-> << m[o] >>]

Contents(fm, m, h) == [o \in DOMAIN m |-> SlotValue(fm, m, h, o)]


----------------------------------------------------------------------------
(* The inputs of a call: the format strings, the records of the file and  *)
(* the index list.  A record is laid out from a descriptor                 *)
(* [shape, cut, frameno]: the frame prefix (an OBNAME), then one row (row  *)
(* index, pre span, the fields of fmt, post span), then damaged according  *)
(* to `shape`.                                                             *)

Formats == {
    [pre |-> << >>,          fmt |-> <<"FSINGL", "FDOUBL">>, post |-> << >>],
    [pre |-> <<"USHORT">>,   fmt |-> <<"USHORT">>,           post |-> <<"USHORT">>],
    [pre |-> << >>,          fmt |-> <<"FSING1">>,           post |-> << >>],
    [pre |-> << >>,          fmt |-> <<"FSING2">>,           post |-> << >>],
    [pre |-> << >>,          fmt |-> <<"FDOUB1">>,           post |-> << >>],
    [pre |-> << >>,          fmt |-> <<"FDOUB2">>,           post |-> << >>],
    [pre |-> << >>,          fmt |-> <<"IDENT">>,            post |-> << >>],
    [pre |-> << >>,          fmt |-> <<"UNITS", "USHORT">>,  post |-> << >>],
    [pre |-> << >>,          fmt |-> <<"ASCII">>,            post |-> << >>],
    [pre |-> << >>,          fmt |-> <<"OBNAME">>,           post |-> << >>],
    [pre |-> << >>,          fmt |-> <<"OBJREF">>,           post |-> << >>],
    [pre |-> << >>,          fmt |-> <<"ATTREF">>,           post |-> << >>],
    [pre |-> << >>,          fmt |-> <<"DTIME">>,            post |-> << >>],
    [pre |-> << >>,          fmt |-> <<"ASCII", "DTIME">>,   post |-> <<"USHORT">>] }

FrameStarts == {1, 5, 200}

Shapes == {"full", "badvalue", "cut", "prefixonly", "prefixcut", "empty",
           "extra", "tworows", "encrypted"}

EncUvari(n) ==
    IF n < 128 THEN <<n>>
    ELSE IF n < 16384 THEN <<128 + (n \div 256), n % 256>>
    ELSE <<192 + (n \div 16777216), (n \div 65536) % 256, (n \div 256) % 256, n % 256>>

(* the bytes of one field; bad = a value the Python API rejects or, for   *)
(* IDENT, the longest identifier its length byte can announce             *)
Sample(c, bad) ==
    CASE c = "USHORT" -> <<7>>
      [] c = "FSINGL" -> <<64, 96, 0, 0>>
      [] c = "FDOUBL" -> <<64, 0, 0, 0, 0, 0, 0, 0>>
      [] c = "FSING1" -> <<64, 96, 0, 0, 63, 128, 0, 0>>
      [] c = "FSING2" -> <<64, 96, 0, 0, 63, 128, 0, 0, 63, 0, 0, 0>>
      [] c = "FDOUB1" -> <<64, 0, 0, 0, 0, 0, 0, 0, 63, 240, 0, 0, 0, 0, 0, 0>>
      [] c = "FDOUB2" -> <<64, 0, 0, 0, 0, 0, 0, 0, 63, 240, 0, 0, 0, 0, 0, 0,
                           63, 224, 0, 0, 0, 0, 0, 0>>
      [] c = "IDENT"  -> IF bad THEN <<chars>> \o Rep(chars, 66) ELSE <<2, 65, 200>>
      [] c = "UNITS"  -> <<1, 109>>
      [] c = "ASCII"  -> IF bad THEN <<1, 200>> ELSE <<2, 72, 105>>
      [] c = "OBNAME" -> <<1, 0, 1, 66>>
      [] c = "OBJREF" -> <<1, 84, 1, 0, 1, 66>>
      [] c = "ATTREF" -> <<1, 84, 1, 0, 1, 66, 1, 76>>
      [] c = "DTIME"  -> IF bad THEN <<87, 0, 19, 21, 30, 5, 0, 10>>
                         ELSE <<87, 4, 19, 21, 30, 5, 0, 10>>

PrefixBytes == <<1, 0, 1, 70>>

(* one row; bad = its last field holds the unusual value *)
RowBytes(fr, n, bad) ==
    EncUvari(n)
    \o Concat([j \in 1..Len(fr.pre) |-> Sample(fr.pre[j], FALSE)])
    \o Concat([j \in 1..Len(fr.fmt) |-> Sample(fr.fmt[j], bad /\ j = Len(fr.fmt))])
    \o Concat([j \in 1..Len(fr.post) |-> Sample(fr.post[j], FALSE)])

Layout(fr, d) ==
    LET full == PrefixBytes \o RowBytes(fr, d.frameno, d.shape = "badvalue") IN
    CASE d.shape \in {"full", "badvalue", "encrypted"} -> full
      [] d.shape = "cut" -> SubSeq(full, 1, Len(full) - d.cut)
      [] d.shape = "prefixonly" -> PrefixBytes
      [] d.shape = "prefixcut" -> SubSeq(PrefixBytes, 1, Len(PrefixBytes) - 1)
      [] d.shape = "empty" -> << >>
      [] d.shape = "extra" -> full \o <<1>>
      [] d.shape = "tworows" -> full \o RowBytes(fr, d.frameno + 1, FALSE)

MakeRecord(fr, d) ==
    [data |-> Layout(fr, d), encrypted |-> (d.shape = "encrypted")]

(* records are numbered from a start; at most one record of a file is not *)
(* a full, well-formed one                                                 *)
Descs(n) ==
    { [i \in 1..n |->
          [shape |-> IF i = b THEN sh ELSE "full",
           cut |-> IF i = b /\ sh = "cut" THEN c ELSE 0,
           frameno |-> start + i - 1]] :
      start \in FrameStarts, b \in 1..n, sh \in Shapes, c \in 1..MaxCut }

IndexLists(n) == { [i \in 1..n |-> i], [i \in 1..n |-> n + 1 - i] }

(* the bytes past the end of a record's buffer that a stray read can see *)
GarbageBytes == {0, 255}

Slacks == UNION { [1..n -> GarbageBytes] : n \in 0..MaxSlack }

(* the buffer as numpy hands it over: object slots hold None (np.empty),  *)
(* or, when the array was decoded into before, one object each; inline    *)
(* slots hold whatever was there                                           *)
FreshSlot(fm, o) ==
    IF IsHeapSlot(fm, o) THEN <<None>>
    ELSE Rep(SlotWidth(fm[ColOf(fm, o)]) \div (IF fm[ColOf(fm, o)] \in IdentCodes
                                                THEN UnitSize ELSE 1), 0)

UsedSlot(fm, o, a) ==
    IF IsHeapSlot(fm, o) THEN <<a>>
    ELSE Rep(SlotWidth(fm[ColOf(fm, o)]) \div (IF fm[ColOf(fm, o)] \in IdentCodes
                                                THEN UnitSize ELSE 1), 9)

(* the i-th smallest slot offset is given the i-th object *)
Rank(S, o) == Cardinality({x \in S : x < o})


----------------------------------------------------------------------------
(* Exceptions *)

NoError == [type |-> "none", msg |-> ""]

CorruptError ==
    [type |-> "std::runtime_error",
     msg |-> "corrupted record: fmtstr would read past end"]

MultiFrameError ==
    [type |-> "dl::not_implemented", msg |-> "multiple frames in one FDATA"]

EncryptedError ==
    [type |-> "dl::not_implemented", msg |-> "encrypted FDATA record"]

StrError ==
    [type |-> "std::runtime_error", msg |-> "Could not allocate string object!"]

DateError == [type |-> "py::error_already_set", msg |-> "ValueError"]

(* the Python exception a C++ exception reaches the caller as: the module's *)
(* translator, then pybind11's own                                          *)
PyExc(e) ==
    CASE e.type = "dl::not_implemented" -> "NotImplementedError"
      [] e.type = "std::runtime_error" -> "RuntimeError"
      [] e.type = "py::error_already_set" -> e.msg
      [] OTHER -> "none"

----------------------------------------------------------------------------
(* Ghost observations, kept beside the program's state.                    *)
(*   short     a read or a span asked for more bytes than the record had   *)
(*   leftover  a row ended strictly before its record's end                *)
(*   rowsrec   rows started in the current record                          *)
(*   rows      rows of the call whose fields were all decoded              *)
(*   lastidx   the index of the last such row                              *)
(*   anomalies rows whose index differed from expected_frameno             *)
(*   mem0, heap0, dst0   the buffer when the current record was fetched    *)
(*   env       the bytes found behind the records, as <<k, bytes>>         *)
(*   start     the buffer the call was handed                              *)
(*   runs      the runs made so far; prev, the outcome of the one before   *)
(*   proto     the steps the last write of a heap-object slot went through *)

NoRun == [pc |-> "none", err |-> [type |-> "none", msg |-> ""], dst |-> 0,
          mem |-> << >>, heap |-> << >>, env |-> << >>, anomalies |-> 0]

G0(m, h) ==
    [short |-> FALSE, leftover |-> FALSE, rowsrec |-> 0, rows |-> 0,
     lastidx |-> 0, anomalies |-> 0, mem0 |-> m, heap0 |-> h, dst0 |-> 0,
     env |-> << >>, start |-> [mem |-> m, heap |-> h], runs |-> 1, prev |-> NoRun,
     proto |-> << >>]

----------------------------------------------------------------------------
(* Initial state: read_fdata was entered (lines 312-317) *)

NoSlack == [known |-> FALSE, bytes |-> << >>]

(* fingerprint() is not called *)
NoCall == [type |-> "", id |-> "", origin |-> 0, copy |-> 0, out |-> << >>]

Init ==
    /\ \E fr \in Formats, n \in 1..MaxRecords, used \in BOOLEAN :
       \E d \in Descs(n), ix \in IndexLists(n) :
      LET offs == SlotOffsets(fr.fmt, n)
          hoffs == {o \in offs : IsHeapSlot(fr.fmt, o)}
          h0 == IF used
                THEN << [rc |-> 1, type |-> "NoneType", val |-> << >>] >>
                     \o [i \in 1..Cardinality(hoffs) |->
                            [rc |-> 1, type |-> "str", val |-> << <<111, 108, 100>> >>]]
                ELSE << [rc |-> 1 + Cardinality(hoffs), type |-> "NoneType",
                         val |-> << >>] >>
          m0 == [o \in offs |-> IF used THEN UsedSlot(fr.fmt, o, 2 + Rank(hoffs, o))
                                 ELSE FreshSlot(fr.fmt, o)]
      IN  /\ pre_fmt = fr.pre
          /\ fmt = fr.fmt
          /\ post_fmt = fr.post
          /\ desc = d
          /\ file = [i \in 1..n |-> MakeRecord(fr, d[i])]
          /\ indices = ix
          /\ mem = m0
          /\ heap = h0
          /\ owned = [o \in hoffs |-> TRUE]
          /\ g = G0(m0, h0)
          /\ char_signed \in (IF \E j \in 1..Len(fr.fmt) : fr.fmt[j] \in IdentCodes
                              THEN BOOLEAN ELSE {TRUE})
    /\ dst = 0
    /\ k = 1
    /\ record = [data |-> << >>, encrypted |-> FALSE]
    /\ slack = NoSlack
    /\ ptr = 0
    /\ frameno = 0
    /\ expected_frameno = 1
    /\ f = 1
    /\ pc = "fetch"
    /\ err = NoError
    /\ warnings = << >>
    /\ fp = NoCall


----------------------------------------------------------------------------
(* Reading the record.  `end` is one past the record's last byte.  What a  *)
(* read past `end` sees is not defined by the program: the bytes behind    *)
(* the buffer are arbitrary, and behind at most MaxSlack of them the       *)
(* memory is not mapped.  They are fixed the first time they are read.     *)

end == Len(record.data)

Mems ==
    IF slack.known THEN { record.data \o slack.bytes }
    ELSE { record.data \o s : s \in Slacks }

Seen(m, r) ==
    IF ~r.ok \/ r.ptr > end
    THEN [known |-> TRUE, bytes |-> SubSeq(m, end + 1, Len(m))]
    ELSE slack

Short(r) == ~r.ok \/ r.ptr > end

(* the ghost record after a read r of the memory m *)
Observe(gg, m, r) ==
    [gg EXCEPT !.short = @ \/ Short(r),
               !.env = IF ~slack.known /\ Short(r)
                       THEN Append(@, <<k, SubSeq(m, end + 1, Len(m))>>) ELSE @]

(* as assert_overflow, off by one: a read up to the very end is refused *)
assert_overflow_strict(p, skip, e) == p + skip >= e

(* assert_overflow: TRUE when it throws *)
assert_overflow(p, skip, e) == p + skip > e

(* as isencrypted, the flag ignored *)
isencrypted_ignored(rec) == FALSE

(* record.isencrypted() *)
isencrypted(rec) == rec.encrypted

(* as RowLeftover, only an overrun rejected: the while loop goes round *)
RowLeftover_overrun(p, e) == p > e

(* the test after the post span: TRUE when "multiple frames" is thrown *)
RowLeftover(p, e) == p # e

(* as NextExpected, counting rows instead of following the index *)
NextExpected_counting(fno, expected) == expected + 1

(* expected_frameno = frameno + 1 *)
NextExpected(fno, expected) == fno + 1

(* the body of `if (frameno != expected_frameno)`: the warnings afterwards *)
NonSequential(w, fno, expected) == w

(* as OnRowIndex, a row out of sequence ending the call *)
OnRowIndex_strict(fno, expected) == IF fno # expected THEN "failed" ELSE "pre"

(* as OnRowIndex, the pre span not consumed behind the row index *)
OnRowIndex_skippre(fno, expected) == "field"

(* where read_fdata goes on after the row index *)
OnRowIndex(fno, expected) == "pre"

(* as Throw, the exception noted and the index loop gone on with *)
Throw_resume(e) == pc' = "fetch" /\ err' = e

(* throw e: read_fdata is left, nothing after the throw is run *)
Throw(e) == pc' = "failed" /\ err' = e

(* what read_fdata is handed and never writes (fp is not its concern) *)
Inputs == << pre_fmt, fmt, post_fmt, file, indices, desc, char_signed, fp >>

Buffer == << mem, heap, owned, dst >>

(* for (auto i : indices): file.at(i, record), the encrypted test, ptr and end *)
Fetch ==
    /\ pc = "fetch"
    /\ k <= Len(indices)
    /\ record' = file[indices[k]]
    /\ slack' = NoSlack
    /\ g' = [g EXCEPT !.mem0 = mem, !.heap0 = heap, !.dst0 = dst, !.rowsrec = 0]
    /\ IF isencrypted(record')
       THEN Throw(EncryptedError) /\ UNCHANGED ptr
       ELSE pc' = "prefix" /\ ptr' = 0 /\ UNCHANGED err
    /\ UNCHANGED << Inputs, Buffer, k, frameno, expected_frameno, f, warnings >>

(* the index list is exhausted: read_fdata returns *)
Return ==
    /\ pc = "fetch"
    /\ k > Len(indices)
    /\ pc' = "done"
    /\ UNCHANGED << Inputs, Buffer, k, record, slack, ptr, frameno,
                    expected_frameno, f, err, warnings, g >>

(* ptr = dlis_obname(ptr, &origin, &copy, nullptr, nullptr); while (ptr < end) *)
ReadPrefix ==
    /\ pc = "prefix"
    /\ \E m \in Mems :
         LET r == Obname(m, ptr) IN
         /\ slack' = Seen(m, r)
         /\ g' = Observe(g, m, r)
         /\ IF ~r.ok
            THEN pc' = "crashed" /\ UNCHANGED << ptr, k >>
            ELSE /\ ptr' = r.ptr
                 /\ IF r.ptr < end
                    THEN pc' = "rowindex" /\ UNCHANGED k
                    ELSE pc' = "fetch" /\ k' = k + 1
    /\ UNCHANGED << Inputs, Buffer, record, frameno, expected_frameno, f, err,
                    warnings >>

(* ptr = dlis_uvari(ptr, &frameno); if (frameno != expected_frameno) {} *)
ReadRowIndex ==
    /\ pc = "rowindex"
    /\ \E m \in Mems :
         LET r == Uvari(m, ptr) IN
         /\ slack' = Seen(m, r)
         /\ IF ~r.ok
            THEN /\ pc' = "crashed"
                 /\ g' = Observe(g, m, r)
                 /\ UNCHANGED << ptr, frameno, warnings >>
            ELSE /\ ptr' = r.ptr
                 /\ frameno' = r.val[1][1]
                 /\ warnings' = IF frameno' # expected_frameno
                                THEN NonSequential(warnings, frameno', expected_frameno)
                                ELSE warnings
                 /\ g' = [Observe(g, m, r) EXCEPT
                              !.rowsrec = @ + 1,
                              !.anomalies = IF frameno' # expected_frameno
                                            THEN @ + 1 ELSE @]
                 /\ pc' = OnRowIndex(frameno', expected_frameno)
    /\ UNCHANGED << Inputs, Buffer, k, record, expected_frameno, f, err >>

(* dlis_packflen(pre_fmt, ...); assert_overflow(ptr, src_skip); ptr += src_skip *)
PreSpan ==
    /\ pc = "pre"
    /\ LET src_skip == PackfLen(pre_fmt).src IN
       IF assert_overflow(ptr, src_skip, end)
       THEN /\ Throw(CorruptError)
            /\ g' = [g EXCEPT !.short = TRUE]
            /\ UNCHANGED << ptr, f >>
       ELSE /\ ptr' = ptr + src_skip
            /\ f' = 1
            /\ pc' = "field"
            /\ UNCHANGED << err, g >>
    /\ UNCHANGED << Inputs, Buffer, k, record, slack, frameno, expected_frameno,
                    warnings >>


----------------------------------------------------------------------------
(* The fields of a row *)

Groups(bytes, w) ==
    [i \in 1..(Len(bytes) \div w) |-> SubSeq(bytes, (i - 1) * w + 1, i * w)]

(* as FloatGroup, the bytes of the group left in one piece *)
FloatGroup_flat(m, p, n, w) == Fixed(m, p, n * w)

FloatGroup(m, p, n, w) ==
    LET r == Fixed(m, p, n * w) IN
    IF ~r.ok THEN Fault ELSE [r EXCEPT !.val = Groups(r.val[1], w)]

Fsing1(m, p) == FloatGroup(m, p, 2, 4)
Fsing2(m, p) == FloatGroup(m, p, 3, 4)
Fdoub1(m, p) == FloatGroup(m, p, 2, 8)
Fdoub2(m, p) == FloatGroup(m, p, 3, 8)

AtField(c) == pc = "field" /\ f <= Len(fmt) /\ fmt[f] \in c

InBuffer == dst \in DOMAIN mem

(* what a release of the slot's occupant can do *)
Releases ==
    IF InBuffer /\ ~Live(heap, mem[dst][1]) THEN {"crash", "unnoticed"}
    ELSE {"fine"}

(* as swap_pointer, the occupant not released *)
swap_pointer_leak(h, old, new) == Py_INCREF(h, new)

(* swap_pointer on the heap: Py_DECREF(p); p = obj.inc_ref().ptr() *)
swap_pointer(h, old, new) == Py_INCREF(Py_DECREF(h, old), new)

(* The order of the steps of a slot write.  swap_pointer takes its        *)
(* argument by value: the object is constructed by the caller before the  *)
(* body reads the slot, releases the occupant and stores the new pointer. *)
(* The DTIME branch reads and releases first and constructs afterwards.   *)

(* as SwapOrder, the occupant released before the object is constructed *)
SwapOrder_release_first == <<"read", "release", "construct", "store">>

SwapOrder == <<"construct", "read", "release", "store">>

DtimeOrder == <<"read", "release", "construct", "store">>

Position(steps, s) == CHOOSE i \in 1..Len(steps) : steps[i] = s

(* the steps taken when the construction fails: those up to it *)
UpTo(steps, s) == SubSeq(steps, 1, Position(steps, s))

(* the heap after a construction that failed: the occupant `old` was      *)
(* released if its release comes before the construction                  *)
AfterFailure(steps, h, old) ==
    IF Position(steps, "release") < Position(steps, "construct")
    THEN Py_DECREF(h, old) ELSE h

(* A code whose value becomes a Python object: decode, construct the      *)
(* object, swap_pointer(obj); the temporary that held obj then dies.      *)
ObjectField(code, type, Dec(_, _), Accept(_), fail) ==
    /\ AtField({code})
    /\ \E m \in Mems, rel \in Releases :
         LET r == Dec(m, ptr)
             old == mem[dst][1]
             new == NewAddr(heap)
         IN
         /\ slack' = Seen(m, r)
         /\ IF ~r.ok \/ ~InBuffer \/ (Accept(r.val) /\ rel = "crash")
            THEN /\ pc' = "crashed"
                 /\ g' = Observe(g, m, r)
                 /\ UNCHANGED << Buffer, ptr, f, err >>
            ELSE IF ~Accept(r.val)
            THEN /\ Throw(fail)
                 /\ heap' = AfterFailure(SwapOrder, heap, old)
                 /\ g' = [Observe(g, m, r) EXCEPT !.proto = UpTo(SwapOrder, "construct")]
                 /\ UNCHANGED << mem, owned, dst, ptr, f >>
            ELSE /\ heap' = Py_DECREF(swap_pointer(PyNew(heap, type, r.val), old, new),
                                      new)
                 /\ mem' = [mem EXCEPT ![dst] = <<new>>]
                 /\ owned' = [owned EXCEPT ![dst] = TRUE]
                 /\ g' = [Observe(g, m, r) EXCEPT !.proto = SwapOrder]
                 /\ dst' = dst + PtrSize
                 /\ ptr' = r.ptr
                 /\ f' = f + 1
                 /\ UNCHANGED << pc, err >>
    /\ UNCHANGED << Inputs, k, record, frameno, expected_frameno, warnings >>

NeverFails(v) == TRUE

FieldFsing1 == ObjectField("FSING1", "tuple", Fsing1, NeverFails, NoError)

FieldFsing2 == ObjectField("FSING2", "tuple", Fsing2, NeverFails, NoError)

FieldFdoub1 == ObjectField("FDOUB1", "tuple", Fdoub1, NeverFails, NoError)

FieldFdoub2 == ObjectField("FDOUB2", "tuple", Fdoub2, NeverFails, NoError)

StrOk(v) == ValidUTF8(v[1])

FieldAscii == ObjectField("ASCII", "str", Ascii, StrOk, StrError)

FieldObname == ObjectField("OBNAME", "obname", Obname, NeverFails, NoError)

FieldObjref == ObjectField("OBJREF", "objref", Objref, NeverFails, NoError)

FieldAttref == ObjectField("ATTREF", "attref", Attref, NeverFails, NoError)

(* std::uint32_t(tmp[i]): a plain char is widened.  A code unit is held  *)
(* here as the two's complement reading of its 32 bits, so the unit        *)
(* 0xFFFFFF00 + b of a sign-extended char b >= 128 is b - 256.             *)
Widen(b) == IF char_signed /\ b >= 128 THEN b - 256 ELSE b

(* as IdentSlot, the slot not cleared first *)
IdentSlot_nomemset(old, bytes) ==
    [i \in 1..chars |-> IF i <= Len(bytes) THEN Widen(bytes[i]) ELSE old[i]]

(* std::memset(dst, 0, ident_size), then one code unit per character: the *)
(* slot that held `old` after the identifier `bytes` was written to it    *)
IdentSlot(old, bytes) ==
    [i \in 1..chars |-> IF i <= Len(bytes) THEN Widen(bytes[i]) ELSE 0]

(* IDENT and UNITS: memset(dst, 0, ident_size), then one code unit per char *)
FieldIdent ==
    /\ AtField(IdentCodes)
    /\ \E m \in Mems :
         LET r == Ident(m, ptr) IN
         /\ slack' = Seen(m, r)
         /\ g' = Observe(g, m, r)
         /\ IF ~r.ok \/ ~InBuffer
            THEN pc' = "crashed" /\ UNCHANGED << mem, dst, ptr, f >>
            ELSE /\ mem' = [mem EXCEPT ![dst] = IdentSlot(@, r.val[1])]
                 /\ dst' = dst + ident_size
                 /\ ptr' = r.ptr
                 /\ f' = f + 1
                 /\ UNCHANGED pc
    /\ UNCHANGED << Inputs, heap, owned, k, record, frameno, expected_frameno,
                    err, warnings >>

(* as StoreDatetime, the pointer stored before it is tested *)
StoreDatetime_early(m, d, p) == [m EXCEPT ![d] = <<p>>]

(* if (!p) throw py::error_already_set(); std::memcpy(dst, &p, sizeof(p)):  *)
(* the slot after a construction that returned p (0 is NULL)               *)
StoreDatetime(m, d, p) == IF p = 0 THEN m ELSE [m EXCEPT ![d] = <<p>>]

(* DTIME: the occupant is released before the datetime is constructed *)
FieldDtime ==
    /\ AtField({"DTIME"})
    /\ \E m \in Mems, rel \in Releases :
         LET r == Dtime(m, ptr)
             Y == dlis_year(r.val[1][1])
             US == r.val[8][1] * 1000
             v == << <<Y>>, r.val[3], r.val[4], r.val[5], r.val[6], r.val[7], <<US>> >>
             old == mem[dst][1]
             new == NewAddr(heap)
             NULL == 0
         IN
         /\ slack' = Seen(m, r)
         /\ IF ~r.ok \/ ~InBuffer \/ rel = "crash"
            THEN /\ pc' = "crashed"
                 /\ g' = Observe(g, m, r)
                 /\ UNCHANGED << Buffer, ptr, f, err >>
            ELSE IF ~ValidDateTime(Y, r.val[3][1], r.val[4][1], r.val[5][1],
                                   r.val[6][1], r.val[7][1], US)
            THEN /\ heap' = AfterFailure(DtimeOrder, heap, old)
                 /\ mem' = StoreDatetime(mem, dst, NULL)
                 /\ owned' = [owned EXCEPT ![dst] = FALSE]
                 /\ g' = [Observe(g, m, r) EXCEPT !.proto = UpTo(DtimeOrder, "construct")]
                 /\ ptr' = r.ptr
                 /\ Throw(DateError)
                 /\ UNCHANGED << dst, f >>
            ELSE /\ heap' = PyNew(Py_DECREF(heap, old), "datetime", v)
                 /\ mem' = StoreDatetime(mem, dst, new)
                 /\ owned' = [owned EXCEPT ![dst] = TRUE]
                 /\ g' = [Observe(g, m, r) EXCEPT !.proto = DtimeOrder]
                 /\ dst' = dst + PtrSize
                 /\ ptr' = r.ptr
                 /\ f' = f + 1
                 /\ UNCHANGED << pc, err >>
    /\ UNCHANGED << Inputs, k, record, frameno, expected_frameno, warnings >>

(* dlis_packf: big-endian source bytes to the host's (little-endian) value *)
RECURSIVE Reverse(_)
Reverse(s) == IF s = << >> THEN << >> ELSE Append(Reverse(Tail(s)), Head(s))

dlis_packf(c, bytes) == Reverse(bytes)

(* every other code: dlis_packflen, assert_overflow, dlis_packf *)
FieldGeneric ==
    /\ pc = "field"
    /\ f <= Len(fmt)
    /\ fmt[f] \notin HeapCodes \cup IdentCodes
    /\ LET len == PackfLen(<< fmt[f] >>) IN
       IF assert_overflow(ptr, len.src, end)
       THEN /\ Throw(CorruptError)
            /\ g' = [g EXCEPT !.short = TRUE]
            /\ UNCHANGED << mem, dst, ptr, f >>
       ELSE IF ~InBuffer
       THEN pc' = "crashed" /\ UNCHANGED << mem, dst, ptr, f, err, g >>
       ELSE /\ mem' = [mem EXCEPT ![dst] =
                         dlis_packf(fmt[f], SubSeq(record.data, ptr + 1, ptr + len.src))]
            /\ dst' = dst + len.dst
            /\ ptr' = ptr + len.src
            /\ f' = f + 1
            /\ UNCHANGED << pc, err, g >>
    /\ UNCHANGED << Inputs, heap, owned, k, record, slack, frameno,
                    expected_frameno, warnings >>

(* the end of fmt: expected_frameno = frameno + 1 *)
EndFields ==
    /\ pc = "field"
    /\ f > Len(fmt)
    /\ expected_frameno' = NextExpected(frameno, expected_frameno)
    /\ g' = [g EXCEPT !.rows = @ + 1, !.lastidx = frameno]
    /\ pc' = "post"
    /\ UNCHANGED << Inputs, Buffer, k, record, slack, ptr, frameno, f, err,
                    warnings >>

(* dlis_packflen(post_fmt, ...); assert_overflow(ptr, src_skip); ptr += src_skip *)
PostSpan ==
    /\ pc = "post"
    /\ LET src_skip == PackfLen(post_fmt).src IN
       IF assert_overflow(ptr, src_skip, end)
       THEN /\ Throw(CorruptError)
            /\ g' = [g EXCEPT !.short = TRUE]
            /\ UNCHANGED ptr
       ELSE /\ ptr' = ptr + src_skip
            /\ pc' = "checkend"
            /\ UNCHANGED << err, g >>
    /\ UNCHANGED << Inputs, Buffer, k, record, slack, frameno, expected_frameno,
                    f, warnings >>

(* if (ptr != end) throw dl::not_implemented; then while (ptr < end) *)
CheckEnd ==
    /\ pc = "checkend"
    /\ g' = [g EXCEPT !.leftover = @ \/ ptr < end]
    /\ IF RowLeftover(ptr, end)
       THEN Throw(MultiFrameError) /\ UNCHANGED k
       ELSE IF ptr < end
       THEN pc' = "rowindex" /\ UNCHANGED << k, err >>
       ELSE pc' = "fetch" /\ k' = k + 1 /\ UNCHANGED err
    /\ UNCHANGED << Inputs, Buffer, record, slack, ptr, frameno, expected_frameno,
                    f, warnings >>

Next ==
    \/ Fetch
    \/ Return
    \/ ReadPrefix
    \/ ReadRowIndex
    \/ PreSpan
    \/ FieldFsing1
    \/ FieldFsing2
    \/ FieldFdoub1
    \/ FieldFdoub2
    \/ FieldIdent
    \/ FieldAscii
    \/ FieldObname
    \/ FieldObjref
    \/ FieldAttref
    \/ FieldDtime
    \/ FieldGeneric
    \/ EndFields
    \/ PostSpan
    \/ CheckEnd

Spec == Init /\ [][Next]_vars

----------------------------------------------------------------------------
(* fingerprint(type, id, origin, copy) *)

FpTypes == {"FRAME", "CHANNEL"}

FpIds == {"MAIN", "800T"}

FpOrigins == {0, 1, 127}

FpCopies == {-256, -1, 0, 1, 128, 255, 256, 511}

InvalidArgument ==
    [type |-> "std::invalid_argument", msg |-> "Invalid argument, copy out of range"]

(* dl::objref::fingerprint(): the canonical string type-origin-copy-id *)
ObjrefFingerprint(type, origin, copy, id) ==
    type \o "-" \o ToString(origin) \o "-" \o ToString(copy) \o "-" \o id

(* as CopyOutOfRange, the lower limit not tested *)
CopyOutOfRange_upper(copy) == copy > UInt8Max

(* the two tests of copy against the limits of std::uint8_t *)
CopyOutOfRange(copy) == copy > UInt8Max \/ copy < UInt8Min

(* what a call gives: the exception thrown, or the string returned; the  *)
(* copy goes into the objref as std::uint8_t(copy)                        *)
fingerprint(type, id, origin, copy) ==
    IF CopyOutOfRange(copy)
    THEN [thrown |-> InvalidArgument, val |-> ""]
    ELSE LET ucopy == copy % (UInt8Max + 1)
         IN  [thrown |-> NoError, val |-> ObjrefFingerprint(type, origin, ucopy, id)]

InitFingerprint ==
    /\ fp \in { [type |-> t, id |-> i, origin |-> o, copy |-> c, out |-> << >>] :
                   t \in FpTypes, i \in FpIds, o \in FpOrigins, c \in FpCopies }
    /\ pre_fmt = << >> /\ fmt = << >> /\ post_fmt = << >>
    /\ file = << >> /\ indices = << >> /\ desc = << >>
    /\ mem = << >> /\ owned = << >>
    /\ heap = << [rc |-> 1, type |-> "NoneType", val |-> << >>] >>
    /\ g = G0(mem, heap)
    /\ char_signed = TRUE
    /\ dst = 0
    /\ k = 1
    /\ record = [data |-> << >>, encrypted |-> FALSE]
    /\ slack = NoSlack
    /\ ptr = 0
    /\ frameno = 0
    /\ expected_frameno = 1
    /\ f = 1
    /\ pc = "idle"
    /\ err = NoError
    /\ warnings = << >>

(* one call of fingerprint with the arguments of fp *)
Fingerprint ==
    /\ Len(fp.out) < MaxCalls
    /\ fp' = [fp EXCEPT !.out = Append(@, fingerprint(fp.type, fp.id, fp.origin, fp.copy))]
    /\ UNCHANGED << pre_fmt, fmt, post_fmt, file, indices, desc, mem, heap, owned,
                    dst, k, record, slack, ptr, frameno, expected_frameno, f, pc,
                    err, warnings, char_signed, g >>

NextFingerprint == Fingerprint

SpecFingerprint == InitFingerprint /\ [][NextFingerprint]_vars

----------------------------------------------------------------------------
(* Two runs side by side: once a run has ended, the same call is made     *)
(* once more from the same start (the same formats, index list and        *)
(* buffer) on records that differ from the first run's in their row       *)
(* indices only (the greater indices in the second run: which run of a    *)
(* pair comes first does not matter to a comparison).  g.prev keeps how   *)
(* the first run ended.                                                   *)

Rerun ==
    /\ pc \in {"done", "failed", "crashed"}
    /\ g.runs = 1
    /\ \E start \in { x \in FrameStarts : x > desc[1].frameno } :
         LET d2 == [i \in 1..Len(desc) |-> [desc[i] EXCEPT !.frameno = start + i - 1]]
             fr == [pre |-> pre_fmt, fmt |-> fmt, post |-> post_fmt]
         IN  /\ desc' = d2
             /\ file' = [i \in 1..Len(desc) |-> MakeRecord(fr, d2[i])]
    /\ mem' = g.start.mem
    /\ heap' = g.start.heap
    /\ owned' = [o \in DOMAIN owned |-> TRUE]
    /\ g' = [G0(g.start.mem, g.start.heap) EXCEPT
                !.runs = 2,
                !.prev = [pc |-> pc, err |-> err, dst |-> dst, mem |-> mem,
                          heap |-> heap, env |-> g.env, anomalies |-> g.anomalies]]
    /\ dst' = 0
    /\ k' = 1
    /\ record' = [data |-> << >>, encrypted |-> FALSE]
    /\ slack' = NoSlack
    /\ ptr' = 0
    /\ frameno' = 0
    /\ expected_frameno' = 1
    /\ f' = 1
    /\ pc' = "fetch"
    /\ err' = NoError
    /\ UNCHANGED << pre_fmt, fmt, post_fmt, indices, char_signed, warnings, fp >>

NextTwice == Next \/ Rerun

SpecTwice == Init /\ [][NextTwice]_vars


----------------------------------------------------------------------------
(* Properties *)

Terminal == {"done", "failed", "crashed"}

(* the positions of the index list whose record has one of the shapes *)
Listed(shapes) == {i \in 1..Len(indices) : desc[indices[i]].shape \in shapes}

(* C1: when a row (row index, pre span, fields, post span) ends strictly  *)
(* before the record's end, the call fails with NotImplemented; no second *)
(* row of the record is decoded and no further record is processed.       *)
C1_MultiRowRejected ==
    /\ g.rowsrec <= 1
    /\ g.leftover =>
         /\ pc = "failed"
         /\ err = MultiFrameError
         /\ PyExc(err) = "NotImplementedError"
         /\ k <= Len(indices)
         /\ dst = g.dst0 + RowStride(fmt)

C1_Witness == g.leftover /\ pc = "failed" /\ k < Len(indices)

(* C2: a record that ends before the declared length of its next field    *)
(* makes the call fail with CorruptRecord, the rows of earlier records    *)
(* being as they were when the failing record was started.                *)
C2_TruncatedIsCorrupt ==
    (pc \in Terminal /\ g.short) =>
        /\ pc = "failed"
        /\ err = CorruptError
        /\ \A o \in DOMAIN mem : o < g.dst0 => mem[o] = g.mem0[o]

(* C3: every read is preceded by a bounds check: the cursor is never      *)
(* advanced past the record's end and no byte at or beyond the end is     *)
(* read.                                                                  *)
C3_CursorWithinRecord ==
    /\ ptr <= end
    /\ ~slack.known
    /\ pc # "crashed"


(* C4 as stated: a record marked encrypted fails the call with a kind of  *)
(* its own, distinct from NotImplemented and CorruptRecord, before any of *)
(* its bytes is decoded; buffer and next_expected are untouched and no    *)
(* later index is processed.                                              *)
C4_EncryptedKind ==
    [][ /\ (pc = "fetch" /\ k <= Len(indices) /\ file[indices[k]].encrypted) =>
              /\ pc' = "failed"
              /\ PyExc(err') \notin {PyExc(MultiFrameError), PyExc(CorruptError)}
              /\ UNCHANGED << ptr, slack, Buffer, expected_frameno, k >>
        /\ pc = "failed" => UNCHANGED vars ]_vars

(* C4, amended: a record marked encrypted fails the call with the kind    *)
(* NotImplemented (the kind of the multi-row rejection, distinct from     *)
(* CorruptRecord) before any of its bytes is decoded; buffer and          *)
(* next_expected are untouched and no later index is processed.           *)
C4_EncryptedAborts ==
    [][ /\ (pc = "fetch" /\ k <= Len(indices) /\ file[indices[k]].encrypted) =>
              /\ pc' = "failed"
              /\ err' = EncryptedError
              /\ PyExc(err') = "NotImplementedError"
              /\ PyExc(err') # PyExc(CorruptError)
              /\ UNCHANGED << ptr, slack, Buffer, expected_frameno, k >>
        /\ pc = "failed" => UNCHANGED vars ]_vars

C4_Witness ==
    pc = "failed" /\ isencrypted(record) /\ err = EncryptedError /\ g.rows > 0

C7_AnomalyWarned == Len(warnings) = g.anomalies

(* C8: next_expected is 1 before the first row; after every row whose     *)
(* fields were all decoded it is that row's index + 1, matching or not;   *)
(* it is one counter for the call, not reset at the next record.          *)
C8_NextExpected ==
    /\ g.rows = 0 => expected_frameno = 1
    /\ g.rows > 0 => expected_frameno = g.lastidx + 1
    /\ pc \in {"post", "checkend"} => expected_frameno = frameno + 1

C8_Witness ==
    g.rows > 1 /\ g.anomalies > 0 /\ expected_frameno > 2 /\ pc = "done"

(* C9: a heap-object slot owns exactly one reference to its occupant: on  *)
(* a write the previous occupant loses that one reference and the new     *)
(* value is left with exactly one, so after a second decode into a slot   *)
(* the first value has none left and the second exactly one.              *)
C9_SlotOwnsOneReference ==
    \A p \in 1..Len(heap) :
        heap[p].rc = (IF p = None THEN 1 ELSE 0)
                     + Cardinality({o \in DOMAIN owned : owned[o] /\ mem[o] = <<p>>})

C9_Witness ==
    \E o \in DOMAIN owned :
        /\ g.start.mem[o] # <<None>>
        /\ mem[o] # g.start.mem[o]
        /\ heap[g.start.mem[o][1]].rc = 0
        /\ heap[mem[o][1]].rc = 1

(* what the rows of earlier records hold is what they held when the       *)
(* current record was fetched                                             *)
EarlierRowsKept ==
    \A o \in DOMAIN mem :
        o < g.dst0 =>
            /\ mem[o] = g.mem0[o]
            /\ IsHeapSlot(fmt, o) =>
                 (Live(heap, mem[o][1]) /\ heap[mem[o][1]] = g.heap0[mem[o][1]])

(* C10 as stated: after a failure every slot of the failing record's row  *)
(* holds what it held when the record was started, and the rows of        *)
(* earlier records keep their values.                                     *)
C10_NoPartialRow ==
    pc = "failed" =>
        /\ \A o \in DOMAIN mem : o >= g.dst0 => mem[o] = g.mem0[o]
        /\ EarlierRowsKept

(* C10, amended: after a failure the slots from the write cursor on (the  *)
(* failing field's and those behind it) hold what they held when the      *)
(* record was started, and the rows of earlier records keep their values; *)
(* the slots of the fields decoded before the failure hold new values.    *)
C10_RowKeptFromCursor ==
    pc = "failed" =>
        /\ \A o \in DOMAIN mem : o >= dst => mem[o] = g.mem0[o]
        /\ EarlierRowsKept

C10_Witness == pc = "failed" /\ g.dst0 > 0 /\ dst > g.dst0 /\ dst < g.dst0 + RowStride(fmt)

(* C6: the row indices do not bear on the run: two runs on inputs that    *)
(* differ in their row indices only (and find the same bytes behind the   *)
(* records, where a read strays there) end alike and leave the same       *)
(* buffer.                                                                *)
C6_RowIndexIrrelevant ==
    (g.runs = 2 /\ pc \in Terminal /\ g.env = g.prev.env) =>
        /\ pc = g.prev.pc
        /\ err = g.prev.err
        /\ dst = g.prev.dst
        /\ mem = g.prev.mem
        /\ heap = g.prev.heap

C6_Witness ==
    /\ g.runs = 2
    /\ pc = "done"
    /\ g.rows > 1
    /\ g.anomalies > 0
    /\ g.prev.anomalies = 0


----------------------------------------------------------------------------
(* The float-with-uncertainty codes *)

FloatCodes == {"FSING1", "FSING2", "FDOUB1", "FDOUB2"}

(* floats of a group, and the bytes of one of them *)
FloatCount(c) == IF c \in {"FSING1", "FDOUB1"} THEN 2 ELSE 3

FloatBytes(c) == IF c \in {"FSING1", "FSING2"} THEN 4 ELSE 8

(* C11 as stated: a float-with-uncertainty field is written inline, as    *)
(* the packed floats: no heap object is made, no occupant released, and   *)
(* the write cursor advances by the packed width.                         *)
C11_FloatInline ==
    [][ (AtField(FloatCodes) /\ f' = f + 1) =>
            /\ heap' = heap
            /\ dst' = dst + FloatCount(fmt[f]) * FloatBytes(fmt[f]) ]_vars

(* C11, amended: a float-with-uncertainty field is written as a reference *)
(* to a new tuple object of the decoded floats: the slot is a heap-object *)
(* slot, its occupant is released once, the tuple is left with the one    *)
(* reference of the slot, and the write cursor advances by the size of a  *)
(* pointer.                                                               *)
C11_FloatAsTuple ==
    [][ (AtField(FloatCodes) /\ f' = f + 1) =>
            LET old == mem[dst][1]
                new == mem'[dst][1]
            IN  /\ dst' = dst + PtrSize
                /\ Len(heap') = Len(heap) + 1
                /\ new = Len(heap')
                /\ heap'[new].type = "tuple"
                /\ heap'[new].rc = 1
                /\ Len(heap'[new].val) = FloatCount(fmt[f])
                /\ \A i \in 1..Len(heap'[new].val) :
                       Len(heap'[new].val[i]) = FloatBytes(fmt[f])
                /\ Concat(heap'[new].val)
                       = SubSeq(record.data \o slack'.bytes, ptr + 1, ptr')
                /\ heap'[old].rc = heap[old].rc - 1
                /\ \A q \in 1..Len(heap) : q # old => heap'[q] = heap[q] ]_vars

C11_Witness ==
    /\ pc = "done"
    /\ ~g.short
    /\ \E o \in DOMAIN mem :
         /\ fmt[ColOf(fmt, o)] \in FloatCodes
         /\ heap[mem[o][1]].type = "tuple"
         /\ heap[mem[o][1]].rc = 1
         /\ g.start.mem[o] # <<None>>
         /\ heap[g.start.mem[o][1]].rc = 0


----------------------------------------------------------------------------
(* Everything read_fdata throws *)
Thrown == {CorruptError, MultiFrameError, EncryptedError, StrError, DateError}

(* C12: an identifier longer than the 255 code units of the slot fails    *)
(* the call with FieldTooLong (the length byte of an IDENT cannot         *)
(* announce one, so there is none); an identifier of up to 255 characters *)
(* never fails the call, and its slot is 255 code units of which those    *)
(* behind its length are zero.                                            *)
C12_IdentFitsSlot ==
    [][ AtField(IdentCodes) =>
            /\ pc' # "failed"
            /\ err' = NoError
            /\ f' = f + 1 =>
                 LET len == ptr' - ptr - 1 IN
                 /\ len \in 0..chars
                 /\ Len(mem'[dst]) = chars
                 /\ \A i \in (len + 1)..chars : mem'[dst][i] = 0
                 /\ dst' = dst + chars * UnitSize ]_vars

C12_Witness ==
    /\ pc = "done"
    /\ err \notin Thrown
    /\ \E o1, o2 \in DOMAIN mem :
         /\ fmt[ColOf(fmt, o1)] \in IdentCodes
         /\ fmt[ColOf(fmt, o2)] \in IdentCodes
         /\ mem[o1][chars] # 0
         /\ mem[o2][2] # 0 /\ mem[o2][3] = 0
         /\ g.start.mem[o2][3] # 0


----------------------------------------------------------------------------
(* The order in which a record is consumed *)

Stopped == {"failed", "crashed"}

(* C13 as stated: the pre span is the first thing consumed of a record,   *)
(* before the frame prefix and before any row index; it is not consumed   *)
(* behind a row index.                                                    *)
C13_PreSpanFirst ==
    pre_fmt # << >> =>
        /\ pc = "pre" => (ptr = 0 /\ g.rowsrec = 0)
        /\ pc = "prefix" => ptr = PackfLen(pre_fmt).src

(* C13, amended: of every record the frame prefix is consumed first and   *)
(* once, from the record's first byte; then, for each row, the row index, *)
(* the pre span, the fields in the order of fmt, and the post span.  The  *)
(* pre span is consumed behind the row index, once per row.               *)
C13_PrefixThenRows ==
    [][ /\ pc = "prefix" => ptr = 0
        /\ pc' = "prefix" => pc = "fetch"
        /\ (pc = "prefix" /\ pc' \notin Stopped) => pc' \in {"rowindex", "fetch"}
        /\ pc' = "rowindex" => pc \in {"prefix", "checkend"}
        /\ (pc = "rowindex" /\ pc' \notin Stopped) =>
               /\ pc' = "pre"
               /\ ptr' > ptr
               /\ g'.rowsrec = g.rowsrec + 1
        /\ pc' = "pre" => pc = "rowindex"
        /\ (pc = "pre" /\ pc' \notin Stopped) =>
               /\ pc' = "field" /\ f' = 1
               /\ ptr' = ptr + PackfLen(pre_fmt).src
        /\ (pc = "field" /\ pc' \notin Stopped) =>
               \/ f <= Len(fmt) /\ pc' = "field" /\ f' = f + 1
               \/ f = Len(fmt) + 1 /\ pc' = "post" /\ ptr' = ptr
        /\ (pc = "post" /\ pc' \notin Stopped) =>
               /\ pc' = "checkend"
               /\ ptr' = ptr + PackfLen(post_fmt).src ]_vars

C13_Witness ==
    /\ pc = "checkend"
    /\ pre_fmt # << >>
    /\ g.rowsrec = 1
    /\ frameno > 127
    /\ ptr = Len(PrefixBytes) + 2 + PackfLen(pre_fmt).src
                 + PackfLen(fmt).src + PackfLen(post_fmt).src
    /\ ptr = end


----------------------------------------------------------------------------
(* The order of the steps of a slot write *)

(* C14 as stated: every write of a heap-object slot goes through: read    *)
(* the reference in the slot, release it, construct the new value, store  *)
(* the new reference; the new value is never constructed before the old   *)
(* one is released.                                                       *)
C14_ReleaseBeforeConstruct ==
    LET order == <<"read", "release", "construct", "store">>
    IN  g.proto = SubSeq(order, 1, Len(g.proto))

(* C14, amended: only DTIME reads and releases the occupant before it     *)
(* constructs the new value; every code written through swap_pointer      *)
(* (the float tuples, ASCII, OBNAME, OBJREF, ATTREF) constructs the new   *)
(* value first and then reads, releases and stores.  So a construction    *)
(* that fails leaves the occupant of a swap_pointer slot unreleased and   *)
(* has released the occupant of a DTIME slot; a write that succeeds has   *)
(* released the occupant once and stored the new reference.               *)
C14_ConstructBeforeRelease ==
    [][ (AtField(HeapCodes) /\ pc' # "crashed") =>
            LET old == mem[dst][1]
                order == IF fmt[f] = "DTIME"
                         THEN <<"read", "release", "construct", "store">>
                         ELSE <<"construct", "read", "release", "store">>
                released == IF fmt[f] = "DTIME" THEN 1 ELSE 0
            IN  IF pc' = "failed"
                THEN /\ g'.proto = SubSeq(order, 1, Position(order, "construct"))
                     /\ mem' = mem
                     /\ Len(heap') = Len(heap)
                     /\ heap'[old].rc = heap[old].rc - released
                ELSE /\ g'.proto = order
                     /\ Len(heap') = Len(heap) + 1
                     /\ mem'[dst] = << Len(heap') >>
                     /\ heap'[old].rc = heap[old].rc - 1 ]_vars

C14_Witness ==
    /\ pc = "failed"
    /\ err = DateError
    /\ g.proto = <<"read", "release", "construct">>
    /\ fmt[1] = "ASCII"
    /\ dst = g.dst0 + PtrSize
    /\ heap[mem[g.dst0][1]].type = "str"
    /\ heap[mem[g.dst0][1]].val = << <<72, 105>> >>
    /\ mem[g.dst0] # g.start.mem[g.dst0]


----------------------------------------------------------------------------
(* The order of the records *)

(* C15: the records are fetched in the order of the index list, the next  *)
(* one only after the one before was decoded without a failure; the write *)
(* cursor is one cursor that only moves forward and is not reset between  *)
(* records; after the first failure nothing more is fetched or written.   *)
C15_InOrderForward ==
    [][ /\ err = NoError
        /\ pc \notin Stopped
        /\ dst' >= dst
        /\ k' \in {k, k + 1}
        /\ k' = k + 1 =>
             /\ pc \in {"prefix", "checkend"}
             /\ pc' = "fetch"
             /\ err' = NoError
             /\ dst' = dst
        /\ IF pc = "fetch" /\ pc' # "done"
           THEN record' = file[indices[k]] /\ UNCHANGED << Buffer, k >>
           ELSE record' = record
        /\ pc' \in Stopped => UNCHANGED << mem, dst, k >> ]_vars

C15_Witness ==
    /\ pc = "done"
    /\ indices = <<2, 1>>
    /\ record = file[1]
    /\ k = 3
    /\ dst = 2 * RowStride(fmt)
    /\ g.lastidx = desc[1].frameno
    /\ g.anomalies = 2


----------------------------------------------------------------------------
(* C16: wherever read_fdata ends, by return or by failure, every          *)
(* heap-object slot of the buffer holds a reference the slot still owns,  *)
(* to a value that was not released; a DTIME whose construction fails     *)
(* does not leave its slot pointing at the released occupant.             *)
C16_SlotsOwnLiveValues ==
    pc \in Terminal =>
        \A o \in DOMAIN mem :
            IsHeapSlot(fmt, o) => (owned[o] /\ Live(heap, mem[o][1]))


----------------------------------------------------------------------------
(* C17: an IDENT or UNITS field of length len leaves in its slot, at      *)
(* every position below len, the unsigned value 0..255 of the identifier  *)
(* byte at that position (bytes 128..255 included) and 0 at the positions *)
(* from len to 254, whatever the slot held before.                        *)
C17_UnitsAreByteValues ==
    [][ (AtField(IdentCodes) /\ f' = f + 1) =>
            LET bytes == SubSeq(record.data \o slack'.bytes, ptr + 2, ptr')
            IN  /\ Len(mem'[dst]) = chars
                /\ \A i \in 1..chars :
                       mem'[dst][i] = IF i <= Len(bytes) THEN bytes[i] ELSE 0 ]_vars


----------------------------------------------------------------------------
(* C18: fingerprint fails with an invalid-argument error, and gives no    *)
(* fingerprint, whenever copy is outside 0..255; for a copy in 0..255 it  *)
(* returns the fingerprint of the objref (type, origin, copy, id), the    *)
(* copy as it was handed in; calls with the same arguments return the     *)
(* same.                                                                  *)
C18_Fingerprint ==
    /\ \A i \in 1..Len(fp.out) :
         IF fp.copy \in 0..255
         THEN /\ fp.out[i].thrown = NoError
              /\ fp.out[i].val = ObjrefFingerprint(fp.type, fp.origin, fp.copy, fp.id)
         ELSE /\ fp.out[i].thrown.type = "std::invalid_argument"
              /\ fp.out[i].val = ""
    /\ \A i, j \in 1..Len(fp.out) : fp.out[i] = fp.out[j]

C18_Witness ==
    /\ Len(fp.out) = 2
    /\ fp.copy = 255
    /\ fp.origin = 127
    /\ fp.out[2].val = "FRAME-127-255-800T"

============================================================================
